---- MODULE Spec2Model ----
(***************************************************************************)
(* panaani: iterative dereplication controller (src/src/lib.rs), the       *)
(* dendrogram cutter (src/src/clust.rs) and the pairwise estimator call    *)
(* (src/src/dist.rs).                                                      *)
(*                                                                         *)
(* Dissimilarities and thresholds are fixed-point numbers in units of      *)
(* 1/One, so that 1.0 is the integer One.  Sequence identifiers are the    *)
(* integers 1..n.  A cluster label is a tuple <<kind, iter, salt, idx>>,    *)
(* ordered lexicographically, as the strings it stands for are.            *)
(***************************************************************************)
EXTENDS Integers, Sequences, FiniteSets, TLC

\* ------------------------------------------------------------------ bounds
One == 2            \* fixed-point resolution: 1.0 is One
MaxLeaves == 4      \* leaves of the dendrograms handed to the cutter
MaxFiles == 3       \* files of one estimator call followed pair by pair
MaxSeqs == 4        \* input sequences of a run
MaxStubSeqs == 5    \* input sequences of a run whose estimator never merges
MaxBatchStep == 2
MaxIters == 2
MaxDepartures == 2  \* options of a run that depart from the defaults
NumSalts == 2       \* values the random salt is drawn from
UsizeMax == 15      \* largest usize value (stands for 2^64 - 1)

VARIABLES
    dendr,        \* cutter: the dendrogram handed to cut_dendrogram
    height,       \* cutter: similarity threshold of the latest cut
    groups,       \* cutter: group ids returned by the latest cut
    prev_height,  \* cutter: threshold of the cut before the latest one
    prev_groups,  \* cutter: group ids of the cut before the latest one
    cpc,          \* cutter: "idle" | "start" | "cut"
    seq_files,          \* dereplicate: the input sequence identifiers
    my_params,          \* dereplicate: PanaaniParams
    estimator,          \* the external similarity estimator's behaviour
    cluster_contents,   \* label -> member sequences
    iter,
    batch_size,
    n_remaining,
    batch_assignments,  \* label ordering of the round being run
    new_clusters,       \* results of the chunks run so far in this round
    pc,                 \* "idle" | "loop" | "chunks" | "adjust" | "done" | "abort"
    panic,              \* which panic aborted the run
    result,             \* the returned (sequence, label) pairs
    final_passes,       \* history: number of final passes executed
    sizes,              \* history: batch size and cluster count of each
                        \*          batched round, at its start, and the branch
                        \*          of lines 187-194 that ordered it
    grouped,            \* history: sequences whose representative was ever
                        \*          cut into one group with another one
    lost_entry,         \* history: an estimator call lacked a file's entries
    passes,             \* history: the dereplicate_iter calls made, in order
    last_pass,          \* history: arguments and outcome of the latest
                        \*          dereplicate_iter call of the round
    grown,              \* history: batch_size as the growth step left it
    guide,              \* history: the coarse cut of the round's
                        \*          guide_batching call
    sketches,     \* estimator call: the files' sketches, in sketch order
    table,        \* estimator call: which estimates skani answers with
    pending,      \* estimator call: pairs not yet sent by a worker
    received,     \* estimator call: results in the order the channel got them
    ani_result,   \* estimator call: the list ani_from_fastx_files returns
    skani_params, \* estimator call: the SkaniParams the run was configured with
    opt,          \* estimator call: the SkaniParams handed to this call
    ani_vec,      \* linkage: the condensed dissimilarities (`ani`, clust.rs:56)
    apc           \* estimator call: "idle" | "run" | "done" | "linked"

cvars == <<dendr, height, groups, prev_height, prev_groups, cpc>>
dvars == <<seq_files, my_params, estimator, cluster_contents, iter, batch_size,
           n_remaining, batch_assignments, new_clusters, pc, panic, result,
           final_passes, sizes, grouped, lost_entry, passes, last_pass,
           grown, guide>>
avars == <<sketches, table, pending, received, ani_result, skani_params, opt,
           ani_vec, apc>>
vars == <<cvars, dvars, avars>>

\* ------------------------------------------------------------ small helpers
Range(f) == {f[x] : x \in DOMAIN f}

\* ------------------------------------------------- kodama::Dendrogram values
\* A step-wise dendrogram over n observations: n-1 steps, step k (0-based)
\* creates cluster n+k from two clusters not merged before.
RECURSIVE StepPairs(_, _, _)
StepPairs(avail, k, n) ==
    IF Cardinality(avail) <= 1 THEN {<<>>}
    ELSE UNION {
        { <<t>> \o rest :
            rest \in StepPairs((avail \ {t[1], t[2]}) \cup {n + k}, k + 1, n) } :
        t \in {u \in avail \X avail : u[1] < u[2]} }

Dendrogram(n, pairs, ds) ==
    [observations |-> n,
     steps |-> [k \in 1..(n - 1) |->
                  [cluster1 |-> pairs[k][1], cluster2 |-> pairs[k][2],
                   dissimilarity |-> ds[k]]]]

Dendrograms(n, D) ==
    { Dendrogram(n, sd[1], sd[2]) :
        sd \in StepPairs(0..(n - 1), 0, n) \X [1..(n - 1) -> D] }

\* --------------------------------------------------- clust.rs cut_dendrogram
None == -1

\* faulty variant: a step at the cutoff itself is not taken for a merge
RECURSIVE CutStepsStrict(_, _, _, _)
CutStepsStrict(d, cutoff, k, st) ==
    IF k < 0 THEN st
    ELSE
        LET step == d.steps[k + 1]
            cluster == k + d.observations
        IN  IF step.dissimilarity < cutoff
            THEN LET fresh == st.membership[cluster] = None
                     g == IF fresh THEN st.num_groups ELSE st.membership[cluster]
                     m == [st.membership EXCEPT ![cluster] = g,
                                                 ![step.cluster1] = g,
                                                 ![step.cluster2] = g]
                 IN  CutStepsStrict(d, cutoff, k - 1,
                        [membership |-> m,
                         num_groups |-> IF fresh THEN st.num_groups + 1
                                                  ELSE st.num_groups])
            ELSE CutStepsStrict(d, cutoff, k - 1, st)

\* body of the reverse loop over the steps, lines 25-36
RECURSIVE CutSteps(_, _, _, _)
CutSteps(d, cutoff, k, st) ==
    IF k < 0 THEN st
    ELSE
        LET step == d.steps[k + 1]
            cluster == k + d.observations
        IN  IF step.dissimilarity <= cutoff
            THEN LET fresh == st.membership[cluster] = None
                     g == IF fresh THEN st.num_groups ELSE st.membership[cluster]
                     m == [st.membership EXCEPT ![cluster] = g,
                                                 ![step.cluster1] = g,
                                                 ![step.cluster2] = g]
                 IN  CutSteps(d, cutoff, k - 1,
                        [membership |-> m,
                         num_groups |-> IF fresh THEN st.num_groups + 1
                                                  ELSE st.num_groups])
            ELSE CutSteps(d, cutoff, k - 1, st)

\* scan of the leaves, lines 38-46
RECURSIVE LeafScan(_, _, _, _, _)
LeafScan(membership, num_seqs, i, num_groups, acc) ==
    IF i >= num_seqs THEN acc
    ELSE IF membership[i] # None
         THEN LeafScan(membership, num_seqs, i + 1, num_groups,
                       Append(acc, membership[i]))
         ELSE LeafScan(membership, num_seqs, i + 1, num_groups + 1,
                       Append(acc, num_groups))

\* faulty variant: the threshold is taken for the cutoff, without 1.0 - height
cut_dendrogram_sim(d, h) ==
    LET num_seqs == d.observations
        st0 == [membership |-> [i \in 0..(2 * num_seqs - 2) |-> None],
                num_groups |-> 0]
        st == CutSteps(d, h, num_seqs - 2, st0)
    IN  LeafScan(st.membership, num_seqs, 0, st.num_groups, <<>>)

\* faulty variant: the group counter is carried over from the call before
cut_dendrogram_carry(d, h) ==
    LET num_seqs == d.observations
        st0 == [membership |-> [i \in 0..(2 * num_seqs - 2) |-> None],
                num_groups |-> Len(groups)]
        st == CutSteps(d, One - h, num_seqs - 2, st0)
    IN  LeafScan(st.membership, num_seqs, 0, st.num_groups, <<>>)

cut_dendrogram(d, h) ==
    LET cutoff == One - h
        num_seqs == d.observations
        num_nodes == 2 * num_seqs - 1
        st0 == [membership |-> [i \in 0..(num_nodes - 1) |-> None],
                num_groups |-> 0]
        st == CutSteps(d, cutoff, num_seqs - 2, st0)
    IN  LeafScan(st.membership, num_seqs, 0, st.num_groups, <<>>)

\* ------------------------------------------------------------ label strings
\* kinds of label, in the order their strings sort
KName == 0
KExternal == 1
KBatch == 2
KFinal == 3

\* the identifier (file name) of input sequence s
Name(s) == <<KName, 0, 0, s>>
\* a label of a caller-supplied external clustering
External(k) == <<KExternal, 0, 0, k>>
\* temp_dir + "/" + iter + "_" + salt + "-"   (lib.rs:204)
BatchPrefix(it, salt) == <<KBatch, it, salt>>
\* faulty variant: the final pass labelled like a chunk of a batched round
FinalPrefixOfRound == <<KBatch, 0, 1>>

\* "panANI-"   (lib.rs:233)
FinalPrefix == <<KFinal, 0, 0>>

\* String::cmp on two labels / (key..., label) tuples of equal length
TupleLess(a, b) ==
    \E i \in 1..Len(a) : a[i] < b[i] /\ \A j \in 1..(i - 1) : a[j] = b[j]

RECURSIVE InsertSorted(_, _)
InsertSorted(x, s) ==
    IF s = <<>> THEN <<x>>
    ELSE IF TupleLess(x, Head(s)) THEN <<x>> \o s
    ELSE <<Head(s)>> \o InsertSorted(x, Tail(s))

\* itertools sorted / sorted_by: stable ascending sort
RECURSIVE Sorted(_)
Sorted(s) ==
    IF s = <<>> THEN <<>>
    ELSE InsertSorted(s[Len(s)], Sorted(SubSeq(s, 1, Len(s) - 1)))

RECURSIVE SetToSortedSeq(_)
SetToSortedSeq(S) ==
    IF S = {} THEN <<>>
    ELSE LET m == CHOOSE x \in S : \A y \in S \ {x} : TupleLess(x, y)
         IN  <<m>> \o SetToSortedSeq(S \ {m})

RECURSIVE Flatten(_)
Flatten(ss) == IF ss = <<>> THEN <<>> ELSE Head(ss) \o Flatten(Tail(ss))

MinOf(a, b) == IF a < b THEN a ELSE b

\* The order in which a HashMap is iterated.  Where the order is observable
\* the actions draw it from HashOrders (default ordering) or AllOrders
\* (guide_batching); everywhere else the iteration is taken in key order.
KeyOrder(map) == SetToSortedSeq(DOMAIN map)

RECURSIVE AllOrders(_)
AllOrders(S) ==
    IF S = {} THEN {<<>>}
    ELSE UNION {{<<x>> \o p : p \in AllOrders(S \ {x})} : x \in S}

\* TRUE iff every chunk of `size` consecutive labels of o is ascending
ChunksAscending(o, size) ==
    \A i \in 1..(Len(o) - 1) : (i % size # 0) => TupleLess(o[i], o[i + 1])

\* The orders a HashMap's keys may be iterated in, for a round that cuts the
\* order into chunks of `size`: every chunk is put into a HashMap again
\* (lib.rs:200-201), so of the orders that differ only inside a chunk the one
\* with ascending chunks stands for all.
HashOrders(map, size) ==
    {o \in AllOrders(DOMAIN map) : ChunksAscending(o, size)}

\* ------------------------------------------------------- lib.rs assign_seqs
RECURSIVE MembersOf(_, _, _, _)
MembersOf(seqs, clusters, l, i) ==
    IF i > MinOf(Len(seqs), Len(clusters)) THEN <<>>
    ELSE (IF clusters[i] = l THEN <<seqs[i]>> ELSE <<>>)
         \o MembersOf(seqs, clusters, l, i + 1)

assign_seqs(seqs, clusters) ==
    LET m == MinOf(Len(seqs), Len(clusters))
    IN  [l \in {clusters[i] : i \in 1..m} |-> MembersOf(seqs, clusters, l, 1)]

\* the two flattenings of a map into parallel vectors (lib.rs:97-98, 212-213)
FlatMembers(map) ==
    LET keys == KeyOrder(map)
    IN  Flatten([i \in 1..Len(keys) |-> map[keys[i]]])
FlatLabels(map) ==
    LET keys == KeyOrder(map)
    IN  Flatten([i \in 1..Len(keys) |-> [j \in 1..Len(map[keys[i]]) |-> keys[i]]])

\* ------------------------------------------ lib.rs match_clustering_results
\* faulty variant: the new label carries the old cluster's position in the
\* sorted file list, not its group id
match_by_position(fastx_files, old_clusters, hclust_res, out_prefix) ==
    [ok |-> TRUE,
     val |-> [i \in 1..Len(old_clusters) |->
                out_prefix \o <<(CHOOSE j \in 1..Len(fastx_files) :
                                    Sorted(fastx_files)[j] = old_clusters[i]) - 1>>]]

\* panics (ok = FALSE) when an old cluster has no entry in the zipped map
match_clustering_results(fastx_files, old_clusters, hclust_res, out_prefix) ==
    LET sorted == Sorted(fastx_files)
        m == MinOf(Len(sorted), Len(hclust_res))
        old_cluster_to_new_cluster ==
            [l \in {sorted[i] : i \in 1..m} |->
                hclust_res[CHOOSE i \in 1..m :
                    sorted[i] = l /\ \A j \in (i + 1)..m : sorted[j] # l]]
    IN  IF \E i \in 1..Len(old_clusters) :
                old_clusters[i] \notin DOMAIN old_cluster_to_new_cluster
        THEN [ok |-> FALSE, val |-> <<>>]
        ELSE [ok |-> TRUE,
              val |-> [i \in 1..Len(old_clusters) |->
                          out_prefix \o <<old_cluster_to_new_cluster[old_clusters[i]]>>]]

\* ------------------------------------------------- lib.rs dereplicate_iter
\* faulty variant: no new cluster is renamed
PreserveNone(seqs, labels, assignments) ==
    [i \in 1..MinOf(Len(seqs), Len(labels)) |-> labels[i]]

\* faulty variant: clusters of up to two sequences are renamed
PreservePairs(seqs, labels, assignments) ==
    [i \in 1..MinOf(Len(seqs), Len(labels)) |->
        IF Len(assignments[labels[i]]) <= 2
        THEN Name(seqs[i])
        ELSE labels[i]]

\* lines 117-124: a new cluster of one sequence takes that sequence's name
PreserveSingletons(seqs, labels, assignments) ==
    [i \in 1..MinOf(Len(seqs), Len(labels)) |->
        IF Len(assignments[labels[i]]) = 1
        THEN Name(seqs[i])
        ELSE labels[i]]

\* hclust_res is the flat partition the estimator, the linkage and the cut
\* produced for the distinct labels of prev_assignments
dereplicate_iter(prev_assignments, out_prefix, hclust_res) ==
    LET seqs == FlatMembers(prev_assignments)
        old_clusters == FlatLabels(prev_assignments)
        fastx_files == KeyOrder(prev_assignments)
        matched == match_clustering_results(fastx_files, old_clusters,
                                            hclust_res, out_prefix)
        new_assignments == assign_seqs(seqs, matched.val)
        renamed == PreserveSingletons(seqs, matched.val, new_assignments)
    IN  IF matched.ok
        THEN [ok |-> TRUE, val |-> assign_seqs(seqs, renamed)]
        ELSE [ok |-> FALSE, val |-> <<>>]

\* ----------------------------------------- estimator, linkage and the cut
\* KodamaParams.cutoff, the similarity threshold handed to cut_dendrogram:
\* the highest representable value below 1.0 (default 0.97)
AniThreshold == One - 1

\* the files of one estimator call that skani could sketch
Sketched(files) == files \ estimator.unsketchable

\* number of pairwise results of one estimator call (dist.rs:102-104)
NumPairs(files) ==
    (Cardinality(Sketched(files)) * (Cardinality(Sketched(files)) - 1)) \div 2

\* number of observations a list of len pairwise results stands for
ObservationsOf(len) == CHOOSE n \in 1..(len + 1) : n * (n - 1) = 2 * len

\* the dendrogram kodama returns when every dissimilarity is 1.0
ChainDendrogram(n) ==
    [observations |-> n,
     steps |-> [k \in 1..(n - 1) |->
                  [cluster1 |-> IF k = 1 THEN 0 ELSE k,
                   cluster2 |-> IF k = 1 THEN 1 ELSE n + k - 2,
                   dissimilarity |-> One]]]

\* dendrograms kodama::linkage may return for n observations; the
\* dissimilarities are at the cutoff or 1.0
LinkageResults(n) == Dendrograms(n, {One - AniThreshold, One})

\* clust.rs single_linkage_cluster on n observations: every flat partition
\* the cut of a linkage result can be
FlatPartitions ==
    UNION { { <<n, cut_dendrogram(d, AniThreshold)>> : d \in LinkageResults(n) } :
            n \in 1..MaxSeqs }

\* the flat partitions one estimator call over files may end in
HclustResults(files) ==
    LET n == ObservationsOf(NumPairs(files))
    IN  IF estimator.invalid_all
        THEN {cut_dendrogram(ChainDendrogram(n), AniThreshold)}
        ELSE {t[2] : t \in {u \in FlatPartitions : u[1] = n}}

\* an estimator call over two or more files that has no result for one
LostEntry(files) == Cardinality(files) >= 2 /\ Sketched(files) # files

\* -------------------------------------------------- lib.rs guide_batching
guide_batching(fastx_files, hclust_res) ==
    LET m == MinOf(Len(fastx_files), Len(hclust_res))
        keyed == Sorted([i \in 1..m |-> <<hclust_res[i]>> \o fastx_files[i]])
    IN  [i \in 1..m |-> Tail(keyed[i])]

\* ------------------------------------------------------ lib.rs dereplicate
NoneOpt == [some |-> FALSE, val |-> <<>>]
Some(v) == [some |-> TRUE, val |-> v]

\* faulty variant: the linear strategy adds one instead of batch_step
GrowByOne(size) ==
    IF my_params.batch_step_strategy = "double"
    THEN size + size
    ELSE size + 1

\* faulty variant: an unrecognised strategy doubles
GrowElseDouble(size) ==
    IF my_params.batch_step_strategy = "linear"
    THEN size + my_params.batch_step
    ELSE size * 2

\* lines 217-221
Grow(size) ==
    IF my_params.batch_step_strategy = "linear" THEN size + my_params.batch_step
    ELSE IF my_params.batch_step_strategy = "double" THEN size * 2
    ELSE size + my_params.batch_step

\* line 183
\* faulty variant: the iteration cap is not looked at
LoopGuardNoCap == batch_size < n_remaining

LoopGuard == batch_size < n_remaining /\ iter < my_params.max_iters

\* rng.gen::<u64>() for the k-th chunk of a round (lib.rs:204).  Salts are
\* only ever compared with each other, so the k-th draw is taken from the
\* first k values: every pattern of equal and distinct salts is drawn.
Salts(k) == 1..MinOf(k, NumSalts)

\* faulty variant: a last chunk shorter than batch_size is left out
NumChunksExact == Len(batch_assignments) \div batch_size

\* slice::chunks(batch_size)
NumChunks == (Len(batch_assignments) + batch_size - 1) \div batch_size
Chunk(i) == SubSeq(batch_assignments, (i - 1) * batch_size + 1,
                   MinOf(i * batch_size, Len(batch_assignments)))

\* sequences whose label shares its flat group with another label
GroupedBy(prev_assignments, hclust_res) ==
    LET keys == KeyOrder(prev_assignments)
        m == MinOf(Len(keys), Len(hclust_res))
    IN  UNION { Range(prev_assignments[keys[i]]) :
                  i \in {j \in 1..m : \E k \in 1..m :
                            k # j /\ hclust_res[k] = hclust_res[j]} }

\* lines 239-247
SortedPairs(final_clusters) ==
    LET seqs == FlatMembers(final_clusters)
        labels == FlatLabels(final_clusters)
        keyed == Sorted([i \in 1..Len(seqs) |-> labels[i] \o <<seqs[i]>>])
    IN  [i \in 1..Len(keyed) |->
            <<keyed[i][Len(keyed[i])], SubSeq(keyed[i], 1, Len(keyed[i]) - 1)>>]

ExternalChoices(n) ==
    {NoneOpt, Some([s \in 1..n |-> External((s + 1) \div 2)])}
InitialChoices(n) ==
    {NoneOpt, Some([i \in 1..n |-> Name(n + 1 - i)])}

\* number of options of a run that depart from PanaaniParams::default()
\* (lib.rs:32-44) and a well-behaved estimator
Departures(p, bad) ==
      (IF p.batch_step_strategy # "linear" THEN 1 ELSE 0)
    + (IF p.max_iters # MaxIters THEN 1 ELSE 0)
    + (IF p.guided THEN 1 ELSE 0)
    + (IF p.external_clustering.some THEN 1 ELSE 0)
    + (IF p.initial_batches.some THEN 1 ELSE 0)
    + (IF bad # {} THEN 1 ELSE 0)

\* build.rs build_pangenome_graph: one call of the pangenome builder
build_pangenome_graph(input_seq_names, prefix) ==
    [input_seq_names |-> input_seq_names, prefix |-> prefix]

\* faulty variant: a graph is built for every cluster
BuildAll(files_in_cluster) ==
    LET keys == KeyOrder(files_in_cluster)
    IN  [i \in 1..Len(keys) |->
            build_pangenome_graph(files_in_cluster[keys[i]], keys[i])]

\* faulty variant: clusters of two sequences are skipped as well
BuildLarge(files_in_cluster) ==
    LET keys == SelectSeq(KeyOrder(files_in_cluster),
                          LAMBDA l : Len(files_in_cluster[l]) > 2)
    IN  [i \in 1..Len(keys) |->
            build_pangenome_graph(files_in_cluster[keys[i]], keys[i])]

\* build.rs build_pangenome_representations: the calls of the pangenome
\* builder it makes, one per cluster that passes the filter of line 145
build_pangenome_representations(files_in_cluster) ==
    LET keys == SelectSeq(KeyOrder(files_in_cluster),
                          LAMBDA l : Len(files_in_cluster[l]) > 1)
    IN  [i \in 1..Len(keys) |->
            build_pangenome_graph(files_in_cluster[keys[i]], keys[i])]

\* what one dereplicate_iter call was given, returned and built (it builds
\* the graphs of its new assignment before it returns, lib.rs:127-131);
\* built holds the labels a graph was built for
PassRecord(prev_assignments, out_prefix, hclust_res, r) ==
    LET builds == IF r.ok THEN build_pangenome_representations(r.val) ELSE <<>>
    IN  [called |-> TRUE, input |-> prev_assignments, prefix |-> out_prefix,
         hclust_res |-> hclust_res, ok |-> r.ok, output |-> r.val,
         builds |-> builds,
         built |-> {builds[i].prefix : i \in 1..Len(builds)}]
NoPass ==
    [called |-> FALSE, input |-> <<>>, prefix |-> <<>>, hclust_res |-> <<>>,
     ok |-> FALSE, output |-> <<>>, builds |-> <<>>, built |-> {}]

\* no guide_batching call was made for the round
NoGuide == [called |-> FALSE, hclust_res |-> <<>>]

InitRun(max_seqs, stub) ==
    /\ \E n \in 1..max_seqs :
        /\ seq_files = [s \in 1..n |-> s]
        /\ \E bs \in 1..MaxBatchStep, st \in {"linear", "double", "cubic"},
              mi \in 0..MaxIters, g \in BOOLEAN,
              ext \in ExternalChoices(n), ib \in InitialChoices(n) :
            my_params = [batch_step |-> bs, batch_step_strategy |-> st,
                         max_iters |-> mi, guided |-> g,
                         external_clustering |-> ext, initial_batches |-> ib]
    /\ cluster_contents =
        assign_seqs(seq_files,
                    IF my_params.external_clustering.some
                    THEN my_params.external_clustering.val
                    ELSE [i \in 1..Len(seq_files) |-> Name(seq_files[i])])
    /\ \E bad \in {{}} \cup {{KeyOrder(cluster_contents)[i]} :
                                i \in {1, Cardinality(DOMAIN cluster_contents)}} :
        /\ Departures(my_params, bad) <= MaxDepartures
        /\ estimator = [invalid_all |-> stub, unsketchable |-> bad]
    /\ iter = 0
    /\ batch_size = my_params.batch_step
    /\ n_remaining = Cardinality(DOMAIN cluster_contents)
    /\ batch_assignments = <<>>
    /\ new_clusters = <<>>
    /\ pc = "loop"
    /\ panic = ""
    /\ result = <<>>
    /\ final_passes = 0
    /\ sizes = <<>>
    /\ grouped = {}
    /\ lost_entry = FALSE
    /\ passes = <<>>
    /\ last_pass = NoPass
    /\ grown = batch_size
    /\ guide = NoGuide

CutterIdle ==
    /\ dendr = [observations |-> 1, steps |-> <<>>]
    /\ height = 0
    /\ groups = <<>>
    /\ prev_height = 0
    /\ prev_groups = <<>>
    /\ cpc = "idle"

\* SkaniParams.min_aligned_frac of SkaniParams::default() (0.0)
MinAlignedFrac == 0

\* SkaniParams::default(), the fields the filter and the guide look at
SkaniDefault == [clip_tails |-> FALSE, min_aligned_frac |-> MinAlignedFrac]

\* lib.rs:137-142, the parameters of the coarse pass of guide_batching
guide_params == [SkaniDefault EXCEPT !.clip_tails = TRUE]

DistIdle ==
    /\ sketches = <<>>
    /\ table = 0
    /\ pending = {}
    /\ received = <<>>
    /\ ani_result = <<>>
    /\ skani_params = SkaniDefault
    /\ opt = SkaniDefault
    /\ ani_vec = <<>>
    /\ apc = "idle"

Init == CutterIdle /\ DistIdle /\ InitRun(MaxSeqs, FALSE)
InitStub == CutterIdle /\ DistIdle /\ InitRun(MaxStubSeqs, TRUE)

StartRound(ordering, guided_by, branch) ==
    /\ batch_assignments' = ordering
    /\ guide' = guided_by
    /\ new_clusters' = <<>>
    /\ sizes' = Append(sizes, [size |-> batch_size, n |-> n_remaining,
                               ordering |-> branch])
    /\ pc' = "chunks"
    /\ UNCHANGED <<seq_files, my_params, estimator, cluster_contents, iter,
                   batch_size, n_remaining, panic, result, final_passes,
                   grouped, passes, last_pass, grown, cvars, avars>>

Abort(why) ==
    /\ pc' = "abort"
    /\ panic' = why

\* faulty variant: the caller's ordering is taken in every round
OrderInitialAlways ==
    /\ pc = "loop" /\ LoopGuard
    /\ my_params.initial_batches.some
    /\ StartRound(my_params.initial_batches.val, NoGuide, "initial")
    /\ UNCHANGED lost_entry

\* lines 187-188: the caller's ordering, first round only
OrderInitial ==
    /\ pc = "loop" /\ LoopGuard
    /\ iter = 0 /\ my_params.initial_batches.some
    /\ StartRound(my_params.initial_batches.val, NoGuide, "initial")
    /\ UNCHANGED lost_entry

\* lines 189-191: guided ordering; guide_batching is handed the labels in the
\* map's iteration order
OrderGuided ==
    /\ pc = "loop" /\ LoopGuard
    /\ ~(iter = 0 /\ my_params.initial_batches.some)
    /\ my_params.guided
    /\ LET files == DOMAIN cluster_contents
       IN  /\ \E current_clusters \in AllOrders(files),
                 hclust_res \in HclustResults(files) :
                StartRound(guide_batching(current_clusters, hclust_res),
                           [called |-> TRUE, hclust_res |-> hclust_res],
                           "guided")
           /\ lost_entry' = (lost_entry \/ LostEntry(files))

\* lines 192-193: the map's own iteration order
OrderDefault ==
    /\ pc = "loop" /\ LoopGuard
    /\ ~(iter = 0 /\ my_params.initial_batches.some)
    /\ ~my_params.guided
    /\ \E order \in HashOrders(cluster_contents, batch_size) :
         StartRound(order, NoGuide, "default")
    /\ UNCHANGED lost_entry

\* lines 199-209: one chunk of the round
RunChunk ==
    /\ pc = "chunks" /\ Len(new_clusters) < NumChunks
    /\ LET x == Chunk(Len(new_clusters) + 1)
           found == \A i \in 1..Len(x) : x[i] \in DOMAIN cluster_contents
           batch_inputs == [y \in Range(x) |-> cluster_contents[y]]
       IN  IF ~found
           THEN /\ Abort("lookup")
                /\ UNCHANGED <<new_clusters, grouped, lost_entry, passes,
                               last_pass>>
           ELSE \E salt \in Salts(Len(new_clusters) + 1),
                   hclust_res \in HclustResults(Range(x)) :
                LET r == dereplicate_iter(batch_inputs,
                                          BatchPrefix(iter, salt), hclust_res)
                IN  /\ lost_entry' = (lost_entry \/ LostEntry(Range(x)))
                    /\ passes' = Append(passes,
                            [round |-> iter, chunk |-> Len(new_clusters) + 1,
                             labels |-> Len(batch_assignments),
                             size |-> batch_size, final |-> FALSE])
                    /\ last_pass' = PassRecord(batch_inputs,
                                               BatchPrefix(iter, salt),
                                               hclust_res, r)
                    /\ IF r.ok
                       THEN /\ new_clusters' = Append(new_clusters, r.val)
                            /\ grouped' = grouped \cup
                                          GroupedBy(batch_inputs, hclust_res)
                            /\ UNCHANGED <<pc, panic>>
                       ELSE /\ Abort("sketch")
                            /\ UNCHANGED <<new_clusters, grouped>>
    /\ UNCHANGED <<seq_files, my_params, estimator, cluster_contents, iter,
                   batch_size, n_remaining, batch_assignments, result,
                   final_passes, sizes, grown, guide, cvars, avars>>

\* lines 212-221: combine the chunk results, count, grow the batch size
EndRound ==
    /\ pc = "chunks" /\ Len(new_clusters) = NumChunks
    /\ cluster_contents' =
        assign_seqs(Flatten([i \in 1..Len(new_clusters) |-> FlatMembers(new_clusters[i])]),
                    Flatten([i \in 1..Len(new_clusters) |-> FlatLabels(new_clusters[i])]))
    /\ n_remaining' = Cardinality(DOMAIN cluster_contents')
    /\ iter' = iter + 1
    /\ IF Grow(batch_size) > UsizeMax
       THEN Abort("arith") /\ UNCHANGED <<batch_size, grown>>
       ELSE /\ batch_size' = Grow(batch_size)
            /\ grown' = Grow(batch_size)
            /\ pc' = "adjust"
            /\ UNCHANGED panic
    /\ batch_assignments' = <<>>
    /\ new_clusters' = <<>>
    /\ last_pass' = NoPass
    /\ guide' = NoGuide
    /\ UNCHANGED <<seq_files, my_params, estimator, result, final_passes,
                   sizes, grouped, lost_entry, passes, cvars, avars>>

\* faulty variant: one turn of the inner loop adds two
AdjustStepByTwo ==
    /\ pc = "adjust"
    /\ n_remaining % batch_size = 1
    /\ IF batch_size + 2 > UsizeMax
       THEN Abort("arith") /\ UNCHANGED batch_size
       ELSE batch_size' = batch_size + 2 /\ UNCHANGED <<pc, panic>>
    /\ UNCHANGED <<seq_files, my_params, estimator, cluster_contents, iter,
                   n_remaining, batch_assignments, new_clusters, result,
                   final_passes, sizes, grouped, lost_entry, passes,
                   last_pass, grown, guide, cvars, avars>>

\* lines 225-227, one turn of the inner loop
AdjustStep ==
    /\ pc = "adjust"
    /\ n_remaining % batch_size = 1
    /\ IF batch_size = UsizeMax
       THEN Abort("arith") /\ UNCHANGED batch_size
       ELSE batch_size' = batch_size + 1 /\ UNCHANGED <<pc, panic>>
    /\ UNCHANGED <<seq_files, my_params, estimator, cluster_contents, iter,
                   n_remaining, batch_assignments, new_clusters, result,
                   final_passes, sizes, grouped, lost_entry, passes,
                   last_pass, grown, guide, cvars, avars>>

\* line 225, the inner loop's exit
AdjustDone ==
    /\ pc = "adjust"
    /\ n_remaining % batch_size # 1
    /\ pc' = "loop"
    /\ UNCHANGED <<seq_files, my_params, estimator, cluster_contents, iter,
                   batch_size, n_remaining, batch_assignments, new_clusters,
                   panic, result, final_passes, sizes, grouped, lost_entry,
                   passes, last_pass, grown, guide, cvars, avars>>

\* lines 229-247: the final pass over everything, and the sorted output
FinalRound ==
    /\ pc = "loop" /\ ~LoopGuard
    /\ \E hclust_res \in HclustResults(DOMAIN cluster_contents) :
        LET final_clusters == dereplicate_iter(cluster_contents, FinalPrefix,
                                               hclust_res)
        IN  /\ final_passes' = final_passes + 1
            /\ lost_entry' = (lost_entry \/ LostEntry(DOMAIN cluster_contents))
            /\ passes' = Append(passes,
                    [round |-> iter, chunk |-> 0,
                     labels |-> Cardinality(DOMAIN cluster_contents),
                     size |-> Cardinality(DOMAIN cluster_contents),
                     final |-> TRUE])
            /\ last_pass' = PassRecord(cluster_contents, FinalPrefix,
                                       hclust_res, final_clusters)
            /\ IF final_clusters.ok
               THEN /\ result' = SortedPairs(final_clusters.val)
                    /\ grouped' = grouped \cup
                                  GroupedBy(cluster_contents, hclust_res)
                    /\ pc' = "done"
                    /\ UNCHANGED panic
               ELSE /\ Abort("sketch")
                    /\ UNCHANGED <<result, grouped>>
    /\ UNCHANGED <<seq_files, my_params, estimator, cluster_contents, iter,
                   batch_size, n_remaining, batch_assignments, new_clusters,
                   sizes, grown, guide, cvars, avars>>

Next ==
    \/ OrderInitial
    \/ OrderGuided
    \/ OrderDefault
    \/ RunChunk
    \/ EndRound
    \/ AdjustStep
    \/ AdjustDone
    \/ FinalRound

Spec == Init /\ [][Next]_vars
SpecStub == InitStub /\ [][Next]_vars

\* ---------------------------------------------------- cutter specification
\* merge orders of six observations that fall into two groups of three
TripletPairs ==
    { <<<<0, 1>>, <<3, 4>>, <<2, 6>>, <<5, 7>>, <<8, 9>>>>,
      <<<<0, 2>>, <<4, 6>>, <<1, 3>>, <<5, 8>>, <<7, 9>>>> }

InitCut ==
    /\ \/ \E n \in 1..MaxLeaves :
            \E pairs \in StepPairs(0..(n - 1), 0, n) :
              \E ds \in [1..(n - 1) -> 0..One] :
                dendr = Dendrogram(n, pairs, ds)
       \/ \E pairs \in TripletPairs :
            \E ds \in [1..5 -> 0..One] :
              dendr = Dendrogram(6, pairs, ds)
    /\ height = 0
    /\ groups = <<>>
    /\ prev_height = 0
    /\ prev_groups = <<>>
    /\ cpc = "start"
    /\ seq_files = <<>>
    /\ my_params = [batch_step |-> 1, batch_step_strategy |-> "linear",
                    max_iters |-> 0, guided |-> FALSE,
                    external_clustering |-> NoneOpt,
                    initial_batches |-> NoneOpt]
    /\ estimator = [invalid_all |-> FALSE, unsketchable |-> {}]
    /\ cluster_contents = <<>>
    /\ iter = 0
    /\ batch_size = 1
    /\ n_remaining = 0
    /\ batch_assignments = <<>>
    /\ new_clusters = <<>>
    /\ pc = "idle"
    /\ panic = ""
    /\ result = <<>>
    /\ final_passes = 0
    /\ sizes = <<>>
    /\ grouped = {}
    /\ lost_entry = FALSE
    /\ passes = <<>>
    /\ last_pass = NoPass
    /\ grown = 1
    /\ guide = NoGuide
    /\ DistIdle

Cut ==
    /\ cpc = "start"
    /\ \E h \in 0..One :
        /\ height' = h
        /\ groups' = cut_dendrogram(dendr, h)
    /\ cpc' = "cut"
    /\ UNCHANGED <<dendr, prev_height, prev_groups, dvars, avars>>

Recut ==
    /\ cpc = "cut"
    /\ \E h \in 0..One :
        /\ h >= height
        /\ height' = h
        /\ groups' = cut_dendrogram(dendr, h)
    /\ prev_height' = height
    /\ prev_groups' = groups
    /\ UNCHANGED <<dendr, cpc, dvars, avars>>

NextCut == Cut \/ Recut

SpecCut == InitCut /\ [][NextCut]_vars

\* ------------------------------------------- dist.rs ani_from_fastx_files
RunIdle ==
    /\ seq_files = <<>>
    /\ my_params = [batch_step |-> 1, batch_step_strategy |-> "linear",
                    max_iters |-> 0, guided |-> FALSE,
                    external_clustering |-> NoneOpt,
                    initial_batches |-> NoneOpt]
    /\ estimator = [invalid_all |-> FALSE, unsketchable |-> {}]
    /\ cluster_contents = <<>>
    /\ iter = 0
    /\ batch_size = 1
    /\ n_remaining = 0
    /\ batch_assignments = <<>>
    /\ new_clusters = <<>>
    /\ pc = "idle"
    /\ panic = ""
    /\ result = <<>>
    /\ final_passes = 0
    /\ sizes = <<>>
    /\ grouped = {}
    /\ lost_entry = FALSE
    /\ passes = <<>>
    /\ last_pass = NoPass
    /\ grown = 1
    /\ guide = NoGuide

\* what skani::chain::chain_seeds answers for the sketches a and b under
\* answer table k: ani in 0..One, or One + 1 for NaN; the aligned fractions
\* in 0..One
ChainSeeds(a, b, k) ==
    [ani |-> (a * b + k) % (One + 2),
     align_fraction_ref |-> (a + k) % (One + 1),
     align_fraction_query |-> (b + 2 * k) % (One + 1)]

\* lines 52-59 (a NaN fails both comparisons)
filter_ani(ani, ref_align_frac, query_align_frac, ref_min_align_frac, query_min_align_frac) ==
    IF /\ ani > 0 /\ ani < One
       /\ (ref_align_frac > ref_min_align_frac
            \/ query_align_frac > query_min_align_frac)
    THEN ani
    ELSE 0

\* combinations(2) of the sketches: index pairs i < j in sketch order
SketchPairs(sk) == {p \in (1..Len(sk)) \X (1..Len(sk)) : p[1] < p[2]}

\* the triple a worker sends for the pair of sketches i < j (lines 107-119)
Sent(sk, p, k) == <<sk[p[1]], sk[p[2]], ChainSeeds(sk[p[1]], sk[p[2]], k)>>

\* faulty variant: the results are kept in the order the channel got them
KeepArrivalOrder(rs) == rs

RECURSIVE InsertByPair(_, _)
InsertByPair(x, rs) ==
    IF rs = <<>> THEN <<x>>
    ELSE IF TupleLess(<<x[1], x[2]>>, <<Head(rs)[1], Head(rs)[2]>>)
         THEN <<x>> \o rs
         ELSE <<Head(rs)>> \o InsertByPair(x, Tail(rs))

\* lines 124-127: stable sort by the first file name, then the second
RECURSIVE SortedByPair(_)
SortedByPair(rs) ==
    IF rs = <<>> THEN <<>>
    ELSE InsertByPair(rs[Len(rs)], SortedByPair(SubSeq(rs, 1, Len(rs) - 1)))

\* one estimator call of a run configured with a minimum aligned fraction
\* out of mins: a call of dereplicate_iter, which hands on the run's
\* parameters (lib.rs:102-105), or, with TRUE in callers, the call of
\* guide_batching, which hands on guide_params (lib.rs:145-148)
InitCall(mins, callers) ==
    /\ CutterIdle
    /\ RunIdle
    /\ \E n \in 2..MaxFiles : sketches \in AllOrders(1..n)
    /\ table \in 0..One
    /\ pending = SketchPairs(sketches)
    /\ received = <<>>
    /\ ani_result = <<>>
    /\ \E m \in mins, coarse \in callers :
        /\ skani_params = [clip_tails |-> FALSE, min_aligned_frac |-> m]
        /\ opt = IF coarse THEN guide_params ELSE skani_params
    /\ ani_vec = <<>>
    /\ apc = "run"

\* the calls of dereplicate_iter in a run with the default parameters
InitDist == InitCall({MinAlignedFrac}, {FALSE})

\* the calls of a run with any minimum aligned fraction
InitConv == InitCall(0..One, BOOLEAN)

\* lines 102-120: a worker sends the result of one pair
Deliver ==
    /\ apc = "run"
    /\ \E p \in pending :
        /\ pending' = pending \ {p}
        /\ received' = Append(received, Sent(sketches, p, table))
    /\ UNCHANGED <<sketches, table, ani_result, skani_params, opt, ani_vec, apc,
                   cvars, dvars>>

\* lines 122-138: all senders are gone; sort, filter, return
Collect ==
    /\ apc = "run" /\ pending = {}
    /\ LET sorted == SortedByPair(received)
       IN  ani_result' =
              [i \in 1..Len(sorted) |->
                  <<sorted[i][1], sorted[i][2],
                    filter_ani(sorted[i][3].ani,
                               sorted[i][3].align_fraction_ref,
                               sorted[i][3].align_fraction_query,
                               opt.min_aligned_frac, opt.min_aligned_frac)>>]
    /\ apc' = "done"
    /\ UNCHANGED <<sketches, table, pending, received, skani_params, opt,
                   ani_vec, cvars, dvars>>

\* clust.rs:59-63, the dissimilarity of one pairwise result
DissimilarityOf(x) == IF x > 0 /\ x < One THEN One - x ELSE One

\* clust.rs:56-65: the condensed dissimilarities handed to kodama::linkage
Link ==
    /\ apc = "done"
    /\ ani_vec' = [i \in 1..Len(ani_result) |-> DissimilarityOf(ani_result[i][3])]
    /\ apc' = "linked"
    /\ UNCHANGED <<sketches, table, pending, received, ani_result, skani_params,
                   opt, cvars, dvars>>

NextDist == Deliver \/ Collect \/ Link

SpecDist == InitDist /\ [][NextDist]_vars
SpecConv == InitConv /\ [][NextDist]_vars

\* =================================================================== claims
\* sequences of an assignment, with multiplicity
LabelsOfResult == {result[i][2] : i \in 1..Len(result)}
SeqsOfResult == [i \in 1..Len(result) |-> result[i][1]]
\* TRUE iff the sequence ss holds every input sequence exactly once
ExactCover(ss) == Len(ss) = Len(seq_files) /\ Range(ss) = Range(seq_files)
\* the label input sequence s has in the run's initial assignment
InitialLabel(s) ==
    IF my_params.external_clustering.some
    THEN my_params.external_clustering.val[s]
    ELSE Name(s)
AloneAtStart(s) ==
    \A t \in Range(seq_files) : InitialLabel(t) = InitialLabel(s) => t = s

\* C1: at every loop head and in the returned pairs, every input sequence
\* belongs to exactly one cluster: none is missing and none appears twice.
C1_ExactCover ==
    /\ pc \in {"loop", "adjust"} => ExactCover(FlatMembers(cluster_contents))
    /\ pc = "done" => ExactCover(SeqsOfResult)

\* C2: a run that leaves the batching loop executes exactly one final pass,
\* after the last batched round, over the whole assignment, with the prefix
\* "panANI-": it is not run before the loop ends, not skipped and not repeated.
C2_OneFinalPass ==
    /\ final_passes <= 1
    /\ pc \in {"loop", "chunks", "adjust"} => final_passes = 0
    /\ final_passes = 1 => pc \in {"done", "abort"}
    /\ pc = "done" =>
        /\ final_passes = 1
        /\ Range(SeqsOfResult) = Range(FlatMembers(cluster_contents))
        /\ \A l \in LabelsOfResult :
              \/ SubSeq(l, 1, 3) = <<KFinal, 0, 0>>
              \/ l[1] = KName

C2_Witness ==
    /\ pc = "done" /\ iter >= 1 /\ final_passes = 1
    /\ \E l \in LabelsOfResult : l[1] = KFinal

\* C3: cut_dendrogram returns one id per leaf and the ids used are exactly
\* 0..G-1 for some G <= N.
C3_Contiguous ==
    cpc = "cut" =>
        /\ Len(groups) = dendr.observations
        /\ Range(groups) = 0..(Cardinality(Range(groups)) - 1)


\* C4: the batching loop with its inner loop ends by iter reaching max_iters
\* or by batch_size reaching n_remaining: the inner loop only ever increments
\* a batch size that is still below n_remaining, and no arithmetic panic
\* ends the run.
C4_LoopEnds ==
    /\ (pc = "adjust" /\ n_remaining % batch_size = 1) => batch_size < n_remaining
    /\ ~(pc = "abort" /\ panic = "arith")

\* C5: a run in which an estimator call had no result for a file it was
\* given never completes.
C5_AbortOnLostEntry == ~(pc = "done" /\ lost_entry)

PairsOf(map) ==
    UNION {{<<map[l][i], l>> : i \in 1..Len(map[l])} : l \in DOMAIN map}
KeptTogether(before, after) ==
    \A l \in DOMAIN before : \A p, q \in after :
        (p[1] \in Range(before[l]) /\ q[1] \in Range(before[l])) => p[2] = q[2]

\* C7: clusters are only merged, never split: over every step the members of
\* a cluster stay together and the number of clusters does not grow, the
\* final pass included; and sequences the caller's clustering (or the default
\* one) puts together are returned under one label.
C7_NeverSplit ==
    /\ [][ /\ cluster_contents' # cluster_contents =>
                /\ KeptTogether(cluster_contents, PairsOf(cluster_contents'))
                /\ Cardinality(DOMAIN cluster_contents')
                       <= Cardinality(DOMAIN cluster_contents)
           /\ (pc # "done" /\ pc' = "done") =>
                /\ KeptTogether(cluster_contents, Range(result'))
                /\ Cardinality({p[2] : p \in Range(result')})
                       <= Cardinality(DOMAIN cluster_contents) ]_vars
    /\ [](pc = "done" =>
            \A p, q \in Range(result) :
                InitialLabel(p[1]) = InitialLabel(q[1]) => p[2] = q[2])

C7_Witness ==
    /\ pc = "done" /\ iter >= 1 /\ my_params.external_clustering.some
    /\ \E i, j \in 1..Len(result) :
          /\ i # j
          /\ InitialLabel(result[i][1]) = InitialLabel(result[j][1])
          /\ result[i][2] = result[j][2]
    /\ Cardinality(LabelsOfResult) >= 2

\* C8: whatever salts the chunks of a round draw, equal ones included, no
\* label is produced by two chunks of the round, so that combining the chunk
\* results merges no clusters of different chunks.
C8_ChunksStayApart ==
    pc = "chunks" =>
        \A i, j \in 1..Len(new_clusters) :
            i # j => DOMAIN new_clusters[i] \cap DOMAIN new_clusters[j] = {}

\* the batch size the growth strategy alone gives the k-th batched round
RECURSIVE Doubled(_, _)
Doubled(x, k) == IF k <= 1 THEN x ELSE 2 * Doubled(x, k - 1)
StrategySize(k) ==
    IF my_params.batch_step_strategy = "double"
    THEN Doubled(my_params.batch_step, k)
    ELSE my_params.batch_step * k

LeastWithoutRemainderOne(b, n) ==
    CHOOSE c \in b..(b + n + 1) :
        /\ n % c # 1
        /\ \A e \in b..(c - 1) : n % e = 1

C10_Monotone ==
    (cpc = "cut" /\ prev_groups # <<>> /\ prev_height <= height) =>
        Cardinality(Range(groups)) >= Cardinality(Range(prev_groups))

C10_Witness ==
    /\ cpc = "cut" /\ prev_groups # <<>> /\ prev_height < height
    /\ Cardinality(Range(groups)) > Cardinality(Range(prev_groups))

C12_SortedPairs ==
    pc = "done" =>
        /\ ExactCover(SeqsOfResult)
        /\ \A i \in 1..(Len(result) - 1) :
              TupleLess(result[i][2] \o <<result[i][1]>>,
                        result[i + 1][2] \o <<result[i + 1][1]>>)

\* TRUE iff pass q is the last chunk of its batched round
LastOfRound(q) == ~q.final /\ q.chunk * q.size >= q.labels

\* C13: rounds are strictly sequential: the dereplicate_iter calls (each one
\* with its estimator, linkage, cut and pangenome builds) are made one after
\* the other, chunk by chunk; a chunk of the next round or the final pass is
\* called only after the last chunk of the round before, and nothing is
\* called after the final pass.
C13_Sequential ==
    \A i \in 1..Len(passes) :
        LET p == passes[i]
        IN  /\ ~p.final => (p.chunk - 1) * p.size < p.labels
            /\ i = 1 => (p.round = 0 /\ (p.final \/ p.chunk = 1))
            /\ i > 1 =>
                LET q == passes[i - 1]
                IN  /\ ~q.final
                    /\ \/ /\ ~p.final /\ p.round = q.round
                          /\ p.chunk = q.chunk + 1
                          /\ p.labels = q.labels /\ p.size = q.size
                       \/ /\ LastOfRound(q)
                          /\ p.round = q.round + 1
                          /\ p.final \/ p.chunk = 1

C13_Witness ==
    /\ pc = "done"
    /\ \E i \in 2..Len(passes) :
          /\ passes[i].round = 1 /\ passes[i].chunk = 2
          /\ passes[i - 1].round = 1
    /\ passes[Len(passes)].final

\* the pairs of an estimator call in ascending order of (first, second) name
PairsInOrder == SetToSortedSeq({<<sketches[p[1]], sketches[p[2]]>> :
                                   p \in SketchPairs(sketches)})

\* C14: whatever the order in which the workers deliver their results, the
\* list handed on is the one list of all pairs in ascending order of
\* (idA, idB), each pair with its own filtered estimate.
C14_OrderIndependent ==
    apc \in {"done", "linked"} =>
        LET pairs == PairsInOrder
            m == opt.min_aligned_frac
        IN  /\ Len(ani_result) = Len(pairs)
            /\ \A i \in 1..Len(ani_result) :
                  LET e == ChainSeeds(pairs[i][1], pairs[i][2], table)
                  IN  ani_result[i] =
                         <<pairs[i][1], pairs[i][2],
                           IF /\ e.ani > 0 /\ e.ani < One
                              /\ (e.align_fraction_ref > m
                                   \/ e.align_fraction_query > m)
                           THEN e.ani ELSE 0>>

C14_Witness ==
    /\ apc = "done" /\ Len(received) = 3
    /\ TupleLess(<<received[3][1], received[3][2]>>,
                 <<received[1][1], received[1][2]>>)
    /\ \E i \in 1..3 : ani_result[i][3] > 0

\* the latest dereplicate_iter call was given exactly one cluster
SingleClusterPass ==
    last_pass.called /\ Cardinality(DOMAIN last_pass.input) = 1
\* the members of the one cluster a single-cluster pass was given
SingleMembers == FlatMembers(last_pass.input)

\* C15 as claimed: a pass over a single cluster completes, returns the
\* cluster's members as one cluster, and builds no pangenome.
C15_SinglePass_Claimed ==
    SingleClusterPass =>
        /\ last_pass.ok
        /\ Cardinality(DOMAIN last_pass.output) = 1
        /\ FlatMembers(last_pass.output) = SingleMembers
        /\ last_pass.built = {}

\* C15 as amended: a pass over a single cluster completes and returns the
\* cluster's members as one cluster; a cluster of one sequence is labeled by
\* that sequence's identifier and no pangenome is built, a cluster of more
\* than one sequence is labeled prefix + 0 and its pangenome is built.
C15_SinglePass ==
    SingleClusterPass =>
        /\ last_pass.ok
        /\ Cardinality(DOMAIN last_pass.output) = 1
        /\ FlatMembers(last_pass.output) = SingleMembers
        /\ IF Len(SingleMembers) = 1
           THEN /\ DOMAIN last_pass.output = {Name(SingleMembers[1])}
                /\ last_pass.built = {}
           ELSE /\ DOMAIN last_pass.output = {last_pass.prefix \o <<0>>}
                /\ last_pass.built = {last_pass.prefix \o <<0>>}

C15_Witness ==
    /\ SingleClusterPass /\ last_pass.ok
    /\ Len(SingleMembers) = 1
    /\ pc = "chunks" /\ Len(new_clusters) >= 2
    /\ last_pass.built = {}

\* C16: in no batched round is the last chunk a single cluster label (stated
\* here for rounds with a batch size of two or more; with a batch size of
\* one every chunk is a single label).
C16_NoSingleRemainder ==
    (pc = "chunks" /\ batch_size >= 2) => Len(Chunk(NumChunks)) # 1

\* number of clusters of the run's initial assignment
InitialCount == Cardinality({InitialLabel(s) : s \in Range(seq_files)})

\* C17: a batched round runs exactly when batch_size < n_remaining and
\* iter < max_iters hold at the loop head, iter counts the batched rounds,
\* at most max_iters of them run, and none runs when max_iters = 0 or
\* batch_step >= the initial cluster count.
C17_RoundsGuarded ==
    /\ pc = "chunks" =>
          /\ batch_size < n_remaining /\ iter < my_params.max_iters
          /\ iter = Len(sizes) - 1
    /\ pc = "done" =>
          ~(batch_size < n_remaining /\ iter < my_params.max_iters)
    /\ pc \in {"loop", "adjust", "done"} => iter = Len(sizes)
    /\ \A k \in 1..Len(sizes) : sizes[k].size < sizes[k].n
    /\ pc # "idle" => Len(sizes) <= my_params.max_iters
    /\ (pc # "idle" /\ (my_params.max_iters = 0
                         \/ my_params.batch_step >= InitialCount))
          => sizes = <<>>

C17_Witness ==
    /\ pc = "done"
    /\ my_params.max_iters >= 1 /\ iter = my_params.max_iters
    /\ batch_size < n_remaining

\* C18: the growth step of a batched round leaves batch_size at the round's
\* batch size + batch_step for "linear", at twice the round's batch size for
\* "double", and at the round's batch size + batch_step for any other
\* strategy string; the step does not abort the run.
C18_GrowthStep ==
    (pc \in {"loop", "adjust", "done"} /\ iter >= 1) =>
        LET used == sizes[iter].size
        IN  /\ my_params.batch_step_strategy = "linear"
                  => grown = used + my_params.batch_step
            /\ my_params.batch_step_strategy = "double"
                  => grown = used * 2
            /\ my_params.batch_step_strategy \notin {"linear", "double"}
                  => grown = used + my_params.batch_step

C18_Witness ==
    /\ pc = "loop" /\ iter = 1
    /\ my_params.batch_step_strategy = "cubic"
    /\ my_params.batch_step = 2
    /\ grown = 4

\* C19: once the adjustment at the end of a batched round is over,
\* n_remaining mod batch_size is not 1, and batch_size is the least value
\* from the grown batch size on of which that is true.
C19_Adjusted ==
    (pc \in {"loop", "chunks", "done"} /\ iter >= 1) =>
        /\ n_remaining % batch_size # 1
        /\ batch_size >= grown
        /\ \A b \in grown..(batch_size - 1) : n_remaining % b = 1

C19_Witness ==
    /\ pc = "loop" /\ iter >= 1
    /\ batch_size > grown
    /\ n_remaining % batch_size # 1

\* the sequences of the old clusters of the latest pass that were cut into
\* flat group g (the i-th group id belongs to the i-th label in sorted order)
PassGroupMembers(g) ==
    LET keys == SetToSortedSeq(DOMAIN last_pass.input)
    IN  UNION {Range(last_pass.input[keys[i]]) :
                  i \in {j \in 1..Len(keys) : last_pass.hclust_res[j] = g}}
PassGroupLabel(g) ==
    IF Cardinality(PassGroupMembers(g)) = 1
    THEN Name(CHOOSE s \in PassGroupMembers(g) : TRUE)
    ELSE last_pass.prefix \o <<g>>

\* C20: the assignment a pass returns has one cluster per flat group of the
\* cut, holding the sequences of the old clusters of that group; a cluster
\* of exactly one sequence is labeled by that sequence's identifier and a
\* cluster of more than one by prefix + group id.
C20_PassLabels ==
    (last_pass.called /\ last_pass.ok) =>
        /\ Len(last_pass.hclust_res) = Cardinality(DOMAIN last_pass.input)
        /\ DOMAIN last_pass.output =
              {PassGroupLabel(g) : g \in Range(last_pass.hclust_res)}
        /\ \A g \in Range(last_pass.hclust_res) :
              /\ Range(last_pass.output[PassGroupLabel(g)]) = PassGroupMembers(g)
              /\ Len(last_pass.output[PassGroupLabel(g)])
                     = Cardinality(PassGroupMembers(g))

C20_Witness ==
    /\ last_pass.called /\ last_pass.ok /\ pc = "done" /\ iter >= 1
    /\ Cardinality(DOMAIN last_pass.input) = 3
    /\ \E l1, l2 \in DOMAIN last_pass.output :
          /\ Len(last_pass.output[l1]) = 1 /\ l1[1] = KName
          /\ Len(last_pass.output[l2]) >= 2 /\ l2[1] = KFinal

\* number of calls of the pangenome builder the latest pass made for label l
BuildCalls(l) ==
    Cardinality({i \in 1..Len(last_pass.builds) : last_pass.builds[i].prefix = l})

\* C21: in every pass (chunk or final) the pangenome builder is called
\* exactly once for each new cluster of more than one sequence, with the
\* cluster's member sequences and its label as output name, and never for a
\* cluster of one sequence or for anything that is not a new cluster.
C21_BuildCalls ==
    (last_pass.called /\ last_pass.ok) =>
        /\ \A l \in DOMAIN last_pass.output :
              IF Len(last_pass.output[l]) > 1
              THEN /\ BuildCalls(l) = 1
                   /\ \E i \in 1..Len(last_pass.builds) :
                         last_pass.builds[i] =
                            [input_seq_names |-> last_pass.output[l],
                             prefix |-> l]
              ELSE BuildCalls(l) = 0
        /\ \A i \in 1..Len(last_pass.builds) :
              last_pass.builds[i].prefix \in DOMAIN last_pass.output

C21_Witness ==
    /\ last_pass.called /\ last_pass.ok /\ pc = "done"
    /\ Len(last_pass.builds) >= 1
    /\ \E l \in DOMAIN last_pass.output :
          Len(last_pass.output[l]) = 1 /\ BuildCalls(l) = 0
    /\ \E l \in DOMAIN last_pass.output :
          Len(last_pass.output[l]) = 2 /\ BuildCalls(l) = 1

\* what the estimator answered for the i-th pair of the returned list
RawResult(i) == ChainSeeds(ani_result[i][1], ani_result[i][2], table)

\* C22: the dissimilarity the linkage gets for a pairwise result is 1 - s
\* when the similarity s lies strictly between 0 and 1 (so is not NaN) and
\* the alignment coverage is not below the configured minimum on the
\* reference or on the query side; it is 1.0 in every other case.
C22_Conversion ==
    apc = "linked" =>
        /\ Len(ani_vec) = Len(ani_result)
        /\ \A i \in 1..Len(ani_vec) :
              LET e == RawResult(i)
                  m == skani_params.min_aligned_frac
              IN  ani_vec[i] =
                     IF /\ e.ani > 0 /\ e.ani < One
                        /\ ~(e.align_fraction_ref < m /\ e.align_fraction_query < m)
                     THEN One - e.ani
                     ELSE One

\* the leaves below node `node` of dendrogram d
RECURSIVE LeavesOf(_, _)
LeavesOf(d, node) ==
    IF node < d.observations THEN {node}
    ELSE LET step == d.steps[node - d.observations + 1]
         IN  LeavesOf(d, step.cluster1) \cup LeavesOf(d, step.cluster2)

\* the dissimilarity of the merge step that first joins leaves i and j
JoinDissimilarity(d, i, j) ==
    LET n == d.observations
        k == CHOOSE m \in 1..(n - 1) :
                /\ {i, j} \subseteq LeavesOf(d, n + m - 1)
                /\ \A e \in 1..(m - 1) : ~({i, j} \subseteq LeavesOf(d, n + e - 1))
    IN  d.steps[k].dissimilarity

\* the merge steps are in order of non-decreasing dissimilarity
Monotone(d) ==
    \A k \in 1..(d.observations - 2) :
        d.steps[k].dissimilarity <= d.steps[k + 1].dissimilarity

\* leaves T and the other leaves are two tight groups at cutoff c: joined
\* below c inside a group, above c across the groups
TightGroups(d, T, c) ==
    \A i, j \in 0..(d.observations - 1) :
        i < j =>
            IF (i \in T) = (j \in T)
            THEN JoinDissimilarity(d, i, j) < c
            ELSE JoinDissimilarity(d, i, j) > c

\* C23: on a dendrogram whose steps are in order of non-decreasing
\* dissimilarity, two distinct leaves get the same group id exactly when the
\* step that first joins them has a dissimilarity <= 1 - threshold, a
\* dissimilarity equal to the cutoff included; six leaves in two tight
\* triplets, cut at the highest threshold below 1.0, give 2 groups of 3.
C23_TreeCut ==
    (cpc = "cut" /\ Monotone(dendr)) =>
        /\ \A i, j \in 0..(dendr.observations - 1) :
              i < j =>
                  ((groups[i + 1] = groups[j + 1])
                      <=> (JoinDissimilarity(dendr, i, j) <= One - height))
        /\ \A T \in {U \in SUBSET (0..(dendr.observations - 1)) :
                        Cardinality(U) = 3} :
              (dendr.observations = 6 /\ height = One - 1
                  /\ TightGroups(dendr, T, One - height)) =>
                  /\ Cardinality(Range(groups)) = 2
                  /\ \A i, j \in T : groups[i + 1] = groups[j + 1]
                  /\ \A i, j \in (0..5) \ T : groups[i + 1] = groups[j + 1]

C23_Witness ==
    /\ cpc = "cut" /\ Monotone(dendr)
    /\ dendr.observations = 6 /\ height = One - 1
    /\ TightGroups(dendr, {0, 1, 2}, One - height)
    /\ Cardinality(Range(groups)) = 2
    /\ groups[1] = groups[3] /\ groups[4] = groups[6] /\ groups[1] # groups[4]

\* a cut in which a merge step lies exactly at the cutoff
C23_AtCutoff ==
    /\ cpc = "cut" /\ Monotone(dendr) /\ height >= 1 /\ height < One
    /\ \E i, j \in 0..(dendr.observations - 1) :
          /\ i < j
          /\ JoinDissimilarity(dendr, i, j) = One - height
          /\ groups[i + 1] = groups[j + 1]

\* number of places of the round's ordering that hold label l
Occurrences(l) ==
    Cardinality({i \in 1..Len(batch_assignments) : batch_assignments[i] = l})

\* the round's ordering was computed, not supplied by the caller
ComputedOrdering == ~(iter = 0 /\ my_params.initial_batches.some)

\* C24: in every batched round the ordering is cut into consecutive chunks
\* of at most batch_size labels, every chunk but the last one holding
\* exactly batch_size; each pass of the round is given one chunk; and with
\* the default or the guided ordering every current cluster label is in
\* exactly one chunk.
C24_Chunking ==
    pc = "chunks" =>
        /\ \A i \in 1..NumChunks :
              /\ Len(Chunk(i)) >= 1 /\ Len(Chunk(i)) <= batch_size
              /\ i < NumChunks => Len(Chunk(i)) = batch_size
        /\ Flatten([i \in 1..NumChunks |-> Chunk(i)]) = batch_assignments
        /\ (last_pass.called /\ last_pass.ok) =>
              DOMAIN last_pass.input = Range(Chunk(Len(new_clusters)))
        /\ ComputedOrdering =>
              /\ Range(batch_assignments) \subseteq DOMAIN cluster_contents
              /\ \A l \in DOMAIN cluster_contents : Occurrences(l) = 1

\* the labels the coarse pass has observations for, in sorted order (the
\* order of the observations, as match_clustering_results takes it)
CoarseObserved == SetToSortedSeq(Sketched(DOMAIN cluster_contents))

\* the group id the coarse cut gave label l
CoarseGroup(l) ==
    guide.hclust_res[CHOOSE i \in 1..Len(CoarseObserved) : CoarseObserved[i] = l]

\* C25: the ordering guide_batching returns is a permutation of the current
\* cluster labels, ascending by (coarse group id of the label, label).
C25_GuidedOrder ==
    (pc = "chunks" /\ guide.called) =>
        /\ Len(batch_assignments) = Cardinality(DOMAIN cluster_contents)
        /\ Range(batch_assignments) = DOMAIN cluster_contents
        /\ \A i \in 1..(Len(batch_assignments) - 1) :
              LET a == batch_assignments[i]
                  b == batch_assignments[i + 1]
              IN  (a \in Range(CoarseObserved) /\ b \in Range(CoarseObserved)) =>
                      TupleLess(<<CoarseGroup(a)>> \o a, <<CoarseGroup(b)>> \o b)

\* a guided round whose ordering parts two labels of one coarse group
C25_Parted ==
    /\ pc = "chunks" /\ guide.called /\ ~lost_entry
    /\ batch_size = 2 /\ Len(batch_assignments) = 3
    /\ CoarseGroup(batch_assignments[1]) = CoarseGroup(batch_assignments[3])
    /\ CoarseGroup(batch_assignments[1]) # CoarseGroup(batch_assignments[2])

\* the assignment the run starts from (lib.rs:177)
InitialAssignment ==
    assign_seqs(seq_files, [i \in 1..Len(seq_files) |-> InitialLabel(seq_files[i])])

\* C26: a caller-supplied initial ordering is the ordering of the first
\* batched round, verbatim, and of no other round; every other round is
\* ordered by guide_batching when guided is set and by the map's own order
\* otherwise; when no batched round runs the ordering is not used and the
\* final pass is run on the initial assignment.
C26_InitialOrdering ==
    /\ \A k \in 1..Len(sizes) :
          sizes[k].ordering =
              IF k = 1 /\ my_params.initial_batches.some THEN "initial"
              ELSE IF my_params.guided THEN "guided"
              ELSE "default"
    /\ pc = "chunks" =>
          /\ sizes[iter + 1].ordering = "initial" =>
                /\ iter = 0
                /\ batch_assignments = my_params.initial_batches.val
          /\ guide.called <=> (sizes[iter + 1].ordering = "guided")
          /\ sizes[iter + 1].ordering = "default" =>
                /\ Range(batch_assignments) = DOMAIN cluster_contents
                /\ Len(batch_assignments) = Cardinality(DOMAIN cluster_contents)
    /\ (pc = "done" /\ sizes = <<>>) =>
          /\ Len(passes) = 1
          /\ last_pass.input = InitialAssignment

C26_Witness ==
    /\ pc = "chunks" /\ iter = 1
    /\ my_params.initial_batches.some /\ my_params.guided
    /\ sizes[1].ordering = "initial" /\ sizes[2].ordering = "guided"
    /\ batch_assignments # my_params.initial_batches.val

\* a run with a caller-supplied ordering and no batched round
C26_Unused ==
    /\ pc = "done" /\ sizes = <<>> /\ my_params.initial_batches.some
    /\ Len(seq_files) >= 2

\* position in the condensed matrix of n observations of the pair (i, j) of
\* observations, 1 <= i < j <= n, counted from 1 (kodama::linkage)
CondensedIndex(i, j, n) == (i - 1) * n - (i * (i - 1)) \div 2 + (j - i)

\* the files of the estimator call in sorted order: the order in which
\* match_clustering_results attributes the k-th group id (lib.rs:53-56)
SortedFiles == SetToSortedSeq({<<sketches[i]>> : i \in 1..Len(sketches)})

\* C27: the dissimilarity the linkage gets at condensed position (i, j),
\* i < j, is the one of the i-th and the j-th file in sorted order, whatever
\* the order of the files' sketches and so whatever the orientation in which
\* a pair is reported.
C27_IndexConsistent ==
    apc = "linked" =>
        \A i, j \in 1..Len(sketches) :
            i < j =>
                LET k == CondensedIndex(i, j, Len(sketches))
                IN  /\ {ani_result[k][1], ani_result[k][2]}
                          = {SortedFiles[i][1], SortedFiles[j][1]}
                    /\ ani_vec[k] = DissimilarityOf(ani_result[k][3])

\* number of group ids the reverse loop of the latest cut allocated at
\* internal nodes (num_groups after line 36)
AllocatedAtNodes ==
    LET n == dendr.observations
    IN  CutSteps(dendr, One - height, n - 2,
                 [membership |-> [i \in 0..(2 * n - 2) |-> None],
                  num_groups |-> 0]).num_groups

\* a child step has a larger dissimilarity than the step that merges it
Inverted(d) ==
    \E k \in 1..(d.observations - 1) :
        \E c \in {d.steps[k].cluster1, d.steps[k].cluster2} :
            /\ c >= d.observations
            /\ d.steps[c - d.observations + 1].dissimilarity
                   > d.steps[k].dissimilarity

\* C28: every group id allocated at an internal node is the id of at least
\* one leaf of the returned partition, for dendrograms with inversions too.
C28_NoUnusedId ==
    cpc = "cut" =>
        \A g \in 0..(AllocatedAtNodes - 1) : g \in Range(groups)

====
